---- MODULE Spec2Model ----
(***************************************************************************)
(* Model of the thumbnail server of src/main.rs: the query parser          *)
(* (querify, ThumbOptions::new, ThumbOptions::from), the pipeline of       *)
(* handle_thumbnail, the router, and the per-connection tasks of main.     *)
(*                                                                         *)
(* Strings that the code takes apart (query strings, their keys and        *)
(* values) are sequences of one-character strings.  A u32 is a pair of     *)
(* 16-bit limbs [hi, lo], value hi * 65536 + lo, so that the whole range   *)
(* 0 .. 4294967295 and its overflow are represented exactly.               *)
(***************************************************************************)
EXTENDS Integers, Sequences, FiniteSets

\* ------------------------------------------------------------------------
\* Bounds of the model
\* ------------------------------------------------------------------------
\* number of requests (connections) in flight at once
NReq == 2
\* largest number of '&'-separated pieces of a generated query string
MaxPairs == 2
\* largest width and height of the small source images
MaxDim == 4

\* ------------------------------------------------------------------------
\* Calls
\* ------------------------------------------------------------------------
\* a call evaluates its arguments once, before the body runs
Call1(F(_), a) == CHOOSE r \in {F(x) : x \in {a}} : TRUE

Call2(F(_, _), a, b) == CHOOSE r \in {F(x, y) : x \in {a}, y \in {b}} : TRUE

\* ------------------------------------------------------------------------
\* u32 arithmetic
\* ------------------------------------------------------------------------
Limb == 65536

U32(n) == [hi |-> n \div Limb, lo |-> n % Limb]

\* the default of ThumbOptions::new when no width is given
DefaultWidth == 180

\* the outcome of a panicking u32 operation (division by zero)
DivFault == -1

\* a / b on u32 for a dividend a below 2^16 (every image dimension of the
\* model): panics when b = 0, is 0 when b >= 2^16 > a
DivU32(a, b) ==
    IF b.hi = 0 /\ b.lo = 0 THEN DivFault
    ELSE IF b.hi > 0 THEN 0
    ELSE a \div b.lo

\* a / b on u32 for two small operands
DivSmall(a, b) == IF b = 0 THEN DivFault ELSE a \div b

\* ------------------------------------------------------------------------
\* str::parse::<u32>
\* ------------------------------------------------------------------------
Digits == <<"0", "1", "2", "3", "4", "5", "6", "7", "8", "9">>

IsDigit(c) == \E i \in 1..10 : Digits[i] = c

DigitVal(c) == (CHOOSE i \in 1..10 : Digits[i] = c) - 1

ParseError == [k |-> "err"]

\* the digit loop of from_str_radix: checked_mul(10) then checked_add(d);
\* any non-digit is InvalidDigit, a result above u32::MAX is PosOverflow
RECURSIVE ParseDigits(_, _)
ParseDigits(s, acc) ==
    IF s = <<>> THEN [k |-> "u32", hi |-> acc.hi, lo |-> acc.lo]
    ELSE IF ~IsDigit(Head(s)) THEN ParseError
    ELSE LET low == acc.lo * 10 + DigitVal(Head(s))
             high == acc.hi * 10 + low \div Limb
         IN IF high >= Limb THEN ParseError
            ELSE Call2(ParseDigits, Tail(s), [hi |-> high, lo |-> low % Limb])

\* "".parse() is Empty; one leading '+' is accepted, a '-' is not (unsigned);
\* a sign alone is an error
ParseU32(s) ==
    IF s = <<>> THEN ParseError
    ELSE IF Head(s) = "+" THEN
        IF Tail(s) = <<>> THEN ParseError ELSE Call2(ParseDigits, Tail(s), U32(0))
    ELSE Call2(ParseDigits, s, U32(0))

\* ------------------------------------------------------------------------
\* querify and ThumbOptions
\* ------------------------------------------------------------------------
HasChar(s, c) == \E i \in 1..Len(s) : s[i] = c

FirstIndex(s, c) == CHOOSE i \in 1..Len(s) : s[i] = c /\ \A j \in 1..(i - 1) : s[j] # c

\* str::split(c): every occurrence of c separates two pieces; "" gives [""]
RECURSIVE Split(_, _)
Split(s, c) ==
    IF HasChar(s, c)
    THEN <<SubSeq(s, 1, FirstIndex(s, c) - 1)>>
             \o Call2(Split, SubSeq(s, FirstIndex(s, c) + 1, Len(s)), c)
    ELSE <<s>>

\* variant: cut at every c, as str::split(c) would
SplitEvery(s, c) == Split(s, c)

\* str::splitn(2, c): at most two pieces, cut at the first c only
SplitN2(s, c) ==
    IF HasChar(s, c)
    THEN <<SubSeq(s, 1, FirstIndex(s, c) - 1), SubSeq(s, FirstIndex(s, c) + 1, Len(s))>>
    ELSE <<s>>

KeyUrl == <<"u", "r", "l">>
KeyWidth == <<"w", "i", "d", "t", "h">>

EmptyMap == [x \in {} |-> <<>>]

\* HashMap::insert: a later insert of the same key replaces the value
Insert(acc, key, v) == [x \in (DOMAIN acc) \cup {key} |-> IF x = key THEN v ELSE acc[x]]

\* the match of querify on (it.next(), it.next())
MatchPair(acc, it) ==
    IF Len(it) = 2 /\ it[1] = KeyUrl THEN Insert(acc, "url", it[2])
    ELSE IF Len(it) = 2 /\ it[1] = KeyWidth THEN Insert(acc, "width", it[2])
    ELSE acc

RECURSIVE QuerifyLoop(_, _)
QuerifyLoop(pairs, acc) ==
    IF pairs = <<>> THEN acc
    ELSE Call2(QuerifyLoop, Tail(pairs), MatchPair(acc, Call2(SplitN2, Head(pairs), "=")))

querify(string) == Call2(QuerifyLoop, Call2(Split, string, "&"), EmptyMap)

\* variant: a missing url is rejected by the parser
ThumbOptionsNewUrlRequired(o) ==
    IF "url" \notin DOMAIN o THEN ParseError
    ELSE LET width == IF "width" \in DOMAIN o THEN Call1(ParseU32, o["width"])
                      ELSE [k |-> "u32", hi |-> 0, lo |-> DefaultWidth]
         IN IF width = ParseError THEN ParseError
            ELSE [k |-> "opts", url |-> o["url"], width |-> [hi |-> width.hi, lo |-> width.lo]]

\* variant: an unparseable width falls back to the default (unwrap_or)
ThumbOptionsNewLenient(o) ==
    LET url == IF "url" \in DOMAIN o THEN o["url"] ELSE <<>>
        width == IF "width" \in DOMAIN o /\ Call1(ParseU32, o["width"]) # ParseError
                 THEN Call1(ParseU32, o["width"])
                 ELSE [k |-> "u32", hi |-> 0, lo |-> DefaultWidth]
    IN [k |-> "opts", url |-> url, width |-> [hi |-> width.hi, lo |-> width.lo]]

\* ThumbOptions::new: the width unwrap panics on a parse error
ThumbOptionsNew(o) ==
    LET url == IF "url" \in DOMAIN o THEN o["url"] ELSE <<>>
        width == IF "width" \in DOMAIN o THEN Call1(ParseU32, o["width"])
                 ELSE [k |-> "u32", hi |-> 0, lo |-> DefaultWidth]
    IN IF width = ParseError THEN ParseError
       ELSE [k |-> "opts", url |-> url, width |-> [hi |-> width.hi, lo |-> width.lo]]

ThumbOptionsFrom(query_params) == Call1(ThumbOptionsNew, Call1(querify, query_params))

\* ------------------------------------------------------------------------
\* The resize geometry of handle_thumbnail
\* ------------------------------------------------------------------------
ToInt(u) == u.hi * Limb + u.lo

\* variant: a ratio of zero is raised to one
RatioAtLeastOne(original_width, width) ==
    IF DivU32(original_width, width) = 0 THEN 1 ELSE DivU32(original_width, width)

\* let ratio = original_width / width;
Ratio(original_width, width) == DivU32(original_width, width)

\* variant: the height is divided by the width instead of the ratio
TargetHeightByWidth(original_width, original_height, width) == DivU32(original_height, width)

\* let height = original_height / ratio;  (DivFault when either division panics)
TargetHeight(original_width, original_height, width) ==
    IF Ratio(original_width, width) = DivFault THEN DivFault
    ELSE DivSmall(original_height, Ratio(original_width, width))

\* ------------------------------------------------------------------------
\* Inputs: requests, query strings and the world outside the server
\* ------------------------------------------------------------------------
None == [k |-> "none"]

SeqsUpTo(S, n) == UNION {[1..m -> S] : m \in 0..n}

\* a piece of a query string as the client writes it: key, then "=" and a
\* value when eq
Piece(key, val) == [key |-> key, eq |-> TRUE, val |-> val]
Bare(key) == [key |-> key, eq |-> FALSE, val |-> <<>>]

Render(p) == IF p.eq THEN p.key \o <<"=">> \o p.val ELSE p.key

RECURSIVE Join(_)
Join(ps) ==
    IF ps = <<>> THEN <<>>
    ELSE IF Len(ps) = 1 THEN Render(ps[1])
    ELSE Render(ps[1]) \o <<"&">> \o Join(Tail(ps))

SrcUrl == <<"h", "t", "t", "p", ":", "/", "/", "x", "/", "y", ".", "p", "n", "g">>
UrlTail == <<"a", "=", "b", "%", "2", "6">>
OtherKey == <<"w">>
V90 == <<"9", "0">>
VPlus == <<"+", "7">>
VNeg == <<"-", "1">>
VJunk == <<"x">>
VMax == <<"4", "2", "9", "4", "9", "6", "7", "2", "9", "5">>
VOver == <<"4", "2", "9", "4", "9", "6", "7", "2", "9", "6">>
V0 == <<"0">>
V1 == <<"1">>
V2 == <<"2">>
V3 == <<"3">>

\* a request: query is None when the URI has no '?'
MkReq(method, path, hasQuery, ps) ==
    [k |-> "req", method |-> method, path |-> path,
     query |-> IF hasQuery THEN [k |-> "some", s |-> Join(ps)] ELSE None,
     parts |-> IF hasQuery THEN ps ELSE <<>>]

Png(w, h) == [k |-> "png", w |-> w, h |-> h]
Junk == [k |-> "junk"]
Truncated == [k |-> "truncated"]

\* what lies outside the server for one request: whether the source answers
\* the GET and with which status, the body it sends (or a body cut short),
\* and whether the PNG encoder succeeds
Refused == [k |-> "env", send |-> "refused", status |-> 0, body |-> Truncated, encOk |-> TRUE]
Answer(status, body, encOk) ==
    [k |-> "env", send |-> "ok", status |-> status, body |-> body, encOk |-> encOk]

BigPng == Png(360, 180)

\* inputs of the parser specification
ParseKeys == {KeyUrl, KeyWidth, OtherKey, <<>>}
ParseVals == {<<>>, SrcUrl, UrlTail, V90, VPlus, VNeg, VJunk, VMax, VOver, V0}
ParsePieces == {Piece(key, v) : key \in ParseKeys, v \in ParseVals}
                   \cup {Bare(key) : key \in ParseKeys}
ParseReqs == {MkReq("GET", "/thumbnail", TRUE, ps) : ps \in SeqsUpTo(ParsePieces, MaxPairs)}
ParseCases == ParseReqs \X {Answer(200, BigPng, TRUE)}

\* inputs of the single-request specification
OneQueries == {<<>>,
               <<Piece(KeyUrl, SrcUrl)>>,
               <<Piece(KeyWidth, V2)>>,
               <<Piece(KeyUrl, SrcUrl), Piece(KeyWidth, V0)>>,
               <<Piece(KeyUrl, SrcUrl), Piece(KeyWidth, V1)>>,
               <<Piece(KeyUrl, SrcUrl), Piece(KeyWidth, V2)>>,
               <<Piece(KeyUrl, SrcUrl), Piece(KeyWidth, V3)>>,
               <<Piece(KeyUrl, SrcUrl), Piece(KeyWidth, VMax)>>,
               <<Piece(KeyWidth, VJunk), Piece(KeyUrl, SrcUrl)>>}
OneReqs == {MkReq(m, p, TRUE, ps) : m \in {"GET", "POST"}, p \in {"/thumbnail", "/other"},
                                    ps \in OneQueries}
               \cup {MkReq(m, p, FALSE, <<>>) : m \in {"GET", "POST"}, p \in {"/thumbnail", "/other"}}
OneBodies == {Truncated, Junk, BigPng} \cup {Png(w, h) : w \in 1..MaxDim, h \in 1..MaxDim}
OneEnvs == {Refused} \cup {Answer(st, b, e) : st \in {200, 404, 500}, b \in OneBodies, e \in BOOLEAN}
OneCases == OneReqs \X OneEnvs

\* inputs of the concurrent specification: requests that succeed, that abort
\* in the fetch, the decode and the geometry, and that never enter the pipeline
ConcGet == MkReq("GET", "/thumbnail", TRUE, <<Piece(KeyUrl, SrcUrl), Piece(KeyWidth, V2)>>)
ConcCases == {<<ConcGet, Refused>>,
              <<ConcGet, Answer(200, Junk, TRUE)>>,
              <<ConcGet, Answer(200, Png(1, 1), TRUE)>>,
              <<ConcGet, Answer(200, Png(4, 2), TRUE)>>,
              <<MkReq("GET", "/thumbnail", FALSE, <<>>), Refused>>,
              <<MkReq("POST", "/thumbnail", FALSE, <<>>), Refused>>}

\* ------------------------------------------------------------------------
\* State
\* ------------------------------------------------------------------------
Tasks == 1..NReq

VARIABLES
    pc,       \* position of each request's task
    req,      \* the request the task serves
    env,      \* the world outside the server for that request
    opts,     \* ThumbOptions built by router
    nGet,     \* GETs sent to the source URL for the request
    status,   \* status of the source's response held between send and bytes
    file,     \* handle_thumbnail: file
    image,    \* handle_thumbnail: image
    height,   \* handle_thumbnail: height
    resized,  \* handle_thumbnail: resized
    bytes,    \* handle_thumbnail: bytes
    resp,     \* the HTTP response written for the request
    fault,    \* the panic that ended the task
    gin,      \* geometry specification: (original_width, original_height, width)
    gout      \* geometry specification: the dimensions passed to resize

vars == <<pc, req, env, opts, nGet, status, file, image, height, resized, bytes, resp,
          fault, gin, gout>>

Init ==
    /\ pc = [t \in Tasks |-> "idle"]
    /\ req = [t \in Tasks |-> None]
    /\ env = [t \in Tasks |-> None]
    /\ opts = [t \in Tasks |-> None]
    /\ nGet = [t \in Tasks |-> 0]
    /\ status = [t \in Tasks |-> 0]
    /\ file = [t \in Tasks |-> None]
    /\ image = [t \in Tasks |-> None]
    /\ height = [t \in Tasks |-> -1]
    /\ resized = [t \in Tasks |-> None]
    /\ bytes = [t \in Tasks |-> None]
    /\ resp = [t \in Tasks |-> None]
    /\ fault = [t \in Tasks |-> "none"]
    /\ gin = None
    /\ gout = None

\* ------------------------------------------------------------------------
\* Steps of a task
\* ------------------------------------------------------------------------
\* variant: a panic is answered with a 500 response
PanicAnswers500(t, site) ==
    /\ pc' = [pc EXCEPT ![t] = "aborted"]
    /\ fault' = [fault EXCEPT ![t] = site]
    /\ resp' = [resp EXCEPT ![t] = [k |-> "resp", status |-> 500, body |-> [k |-> "empty"]]]

\* variant: a panic takes the whole process down, every request in flight
PanicProcess(t, site) ==
    /\ pc' = [u \in Tasks |-> IF pc[u] = "idle" THEN "idle" ELSE "aborted"]
    /\ fault' = [fault EXCEPT ![t] = site]
    /\ resp' = resp

\* a panic unwinds the task that runs the request: the task ends, nothing is
\* written to its connection, no other task is touched
Panic(t, site) ==
    /\ pc' = [pc EXCEPT ![t] = "aborted"]
    /\ fault' = [fault EXCEPT ![t] = site]
    /\ resp' = resp

Goto(t, label) ==
    /\ pc' = [pc EXCEPT ![t] = label]
    /\ fault' = fault

\* main: the service of a connection hands a request to router
serve(t, Cases) ==
    /\ pc[t] = "idle"
    /\ \E c \in Cases :
        /\ req' = [req EXCEPT ![t] = c[1]]
        /\ env' = [env EXCEPT ![t] = c[2]]
    /\ Goto(t, "router")
    /\ UNCHANGED <<opts, nGet, status, file, image, height, resized, bytes, resp, gin, gout>>

\* variant: the route is matched on the path alone
IsThumbnailPath(method, path) == path = "/thumbnail"

\* match (req.method(), uri.path())
IsThumbnail(method, path) == method = "GET" /\ path = "/thumbnail"

NotFound == [k |-> "resp", status |-> 404, body |-> [k |-> "empty"]]

Ok(thumb) == [k |-> "resp", status |-> 200, body |-> thumb]

\* router up to the call of handle_thumbnail
router(t) ==
    /\ pc[t] = "router"
    /\ IF ~IsThumbnail(req[t].method, req[t].path)
       THEN /\ Goto(t, "done")
            /\ resp' = [resp EXCEPT ![t] = NotFound]
            /\ opts' = opts
       ELSE IF req[t].query = None
       THEN /\ Panic(t, "query")
            /\ opts' = opts
       ELSE IF ThumbOptionsFrom(req[t].query.s) = ParseError
       THEN /\ Panic(t, "width")
            /\ opts' = opts
       ELSE /\ Goto(t, "send")
            /\ opts' = [opts EXCEPT ![t] = ThumbOptionsFrom(req[t].query.s)]
            /\ resp' = resp
    /\ UNCHANGED <<req, env, nGet, status, file, image, height, resized, bytes, gin, gout>>

\* the outcome of client.get(&opts.url).send().await: an error for a URL that
\* does not parse or a connection that fails; any status is a response
SendFails(url, e) == url = <<>> \/ e.send = "refused"

\* variant: a failed send is tried once more before the panic
sendWithRetry(t) ==
    /\ pc[t] = "send"
    /\ IF SendFails(opts[t].url, env[t])
       THEN /\ Panic(t, "send")
            /\ nGet' = [nGet EXCEPT ![t] = @ + 2]
            /\ status' = status
       ELSE /\ Goto(t, "bytes")
            /\ nGet' = [nGet EXCEPT ![t] = @ + 1]
            /\ resp' = resp
            /\ status' = [status EXCEPT ![t] = env[t].status]
    /\ UNCHANGED <<req, env, opts, file, image, height, resized, bytes, gin, gout>>

\* client.get(&opts.url).send().await.expect(..)
send(t) ==
    /\ pc[t] = "send"
    /\ nGet' = [nGet EXCEPT ![t] = @ + 1]
    /\ IF SendFails(opts[t].url, env[t])
       THEN /\ Panic(t, "send")
            /\ status' = status
       ELSE /\ Goto(t, "bytes")
            /\ resp' = resp
            /\ status' = [status EXCEPT ![t] = env[t].status]
    /\ UNCHANGED <<req, env, opts, file, image, height, resized, bytes, gin, gout>>

\* .bytes().await.expect(..)
read_bytes(t) ==
    /\ pc[t] = "bytes"
    /\ IF env[t].body = Truncated
       THEN /\ Panic(t, "bytes")
            /\ file' = file
       ELSE /\ Goto(t, "decode")
            /\ resp' = resp
            /\ file' = [file EXCEPT ![t] = env[t].body]
    /\ UNCHANGED <<req, env, opts, nGet, status, image, height, resized, bytes, gin, gout>>

\* image::load_from_memory_with_format(&file, Png).unwrap()
load_from_memory(t) ==
    /\ pc[t] = "decode"
    /\ IF file[t].k # "png"
       THEN /\ Panic(t, "decode")
            /\ image' = image
       ELSE /\ Goto(t, "geometry")
            /\ resp' = resp
            /\ image' = [image EXCEPT ![t] = [k |-> "img", w |-> file[t].w, h |-> file[t].h]]
    /\ UNCHANGED <<req, env, opts, nGet, status, file, height, resized, bytes, gin, gout>>

\* let ratio = original_width / width; let height = original_height / ratio;
geometry(t) ==
    /\ pc[t] = "geometry"
    /\ IF TargetHeight(image[t].w, image[t].h, opts[t].width) = DivFault
       THEN /\ Panic(t, "div")
            /\ height' = height
       ELSE /\ Goto(t, "resize")
            /\ resp' = resp
            /\ height' = [height EXCEPT ![t] = TargetHeight(image[t].w, image[t].h, opts[t].width)]
    /\ UNCHANGED <<req, env, opts, nGet, status, file, image, resized, bytes, gin, gout>>

\* image::imageops::resize(&image, width, height, Nearest)
resize(t) ==
    /\ pc[t] = "resize"
    /\ Goto(t, "encode")
    /\ resp' = resp
    /\ resized' = [resized EXCEPT ![t] = [k |-> "img", w |-> ToInt(opts[t].width), h |-> height[t]]]
    /\ UNCHANGED <<req, env, opts, nGet, status, file, image, height, bytes, gin, gout>>

\* PNGEncoder::new(fout).encode(&resized, width, height, Rgba8).unwrap()
encode(t) ==
    /\ pc[t] = "encode"
    /\ IF ~env[t].encOk
       THEN /\ Panic(t, "encode")
            /\ bytes' = bytes
       ELSE /\ Goto(t, "respond")
            /\ resp' = resp
            /\ bytes' = [bytes EXCEPT ![t] = Png(resized[t].w, resized[t].h)]
    /\ UNCHANGED <<req, env, opts, nGet, status, file, image, height, resized, gin, gout>>

\* router after handle_thumbnail returned Ok(bytes)
respond(t) ==
    /\ pc[t] = "respond"
    /\ Goto(t, "done")
    /\ resp' = [resp EXCEPT ![t] = Ok(bytes[t])]
    /\ UNCHANGED <<req, env, opts, nGet, status, file, image, height, resized, bytes, gin, gout>>

\* every step of a task after its request arrived
Step(t) ==
    \/ router(t)
    \/ send(t)
    \/ read_bytes(t)
    \/ load_from_memory(t)
    \/ geometry(t)
    \/ resize(t)
    \/ encode(t)
    \/ respond(t)

\* ------------------------------------------------------------------------
\* Specifications
\* ------------------------------------------------------------------------
\* requests served concurrently, one task each
Next == \E t \in Tasks : serve(t, ConcCases) \/ Step(t)

Spec == Init /\ [][Next]_vars

\* the runtime polls every task that can make progress
FairSpec == Spec /\ \A t \in Tasks : WF_vars(Step(t))

\* one request, over all the request shapes and source behaviours
NextOne == serve(1, OneCases) \/ Step(1)

SpecOne == Init /\ [][NextOne]_vars

\* one GET /thumbnail request over the generated query strings
NextParse == serve(1, ParseCases) \/ Step(1)

SpecParse == Init /\ [][NextParse]_vars

\* the geometry alone, over all small (original_width, original_height, width)
GeomInputs == {[k |-> "in", ow |-> ow, oh |-> oh, w |-> w] :
                   ow \in 1..(2 * MaxDim), oh \in 1..(2 * MaxDim), w \in 0..(2 * MaxDim + 1)}

\* the arguments handle_thumbnail passes to resize, or the division fault
ResizeArgs(ow, oh, w) ==
    IF TargetHeight(ow, oh, U32(w)) = DivFault THEN [k |-> "fault"]
    ELSE [k |-> "dims", w |-> ToInt(U32(w)), h |-> TargetHeight(ow, oh, U32(w))]

InitGeom ==
    /\ Init!1 /\ Init!2 /\ Init!3 /\ Init!4 /\ Init!5 /\ Init!6 /\ Init!7
    /\ Init!8 /\ Init!9 /\ Init!10 /\ Init!11 /\ Init!12 /\ Init!13
    /\ gin \in GeomInputs
    /\ gout = None

compute_geometry ==
    /\ gout = None
    /\ gout' = ResizeArgs(gin.ow, gin.oh, gin.w)
    /\ UNCHANGED <<pc, req, env, opts, nGet, status, file, image, height, resized, bytes,
                   resp, fault, gin>>

SpecGeom == InitGeom /\ [][compute_geometry]_vars

\* ------------------------------------------------------------------------
\* Properties
\* ------------------------------------------------------------------------
Arrived(t) == pc[t] # "idle"

Finished(t) == pc[t] \in {"done", "aborted"}

Sites == {"query", "width", "send", "bytes", "decode", "div", "encode"}

\* the query-string pieces that querify recognises
IsUrlPair(p) == p.eq /\ p.key = <<"u", "r", "l">>
IsWidthPair(p) == p.eq /\ p.key = <<"w", "i", "d", "t", "h">>
IsRecognised(p) == IsUrlPair(p) \/ IsWidthPair(p)

HasUrlPair(ps) == \E i \in 1..Len(ps) : IsUrlPair(ps[i])
HasWidthPair(ps) == \E i \in 1..Len(ps) : IsWidthPair(ps[i])

LastUrl(ps) == ps[CHOOSE i \in 1..Len(ps) :
                     IsUrlPair(ps[i]) /\ \A j \in (i + 1)..Len(ps) : ~IsUrlPair(ps[j])].val
LastWidth(ps) == ps[CHOOSE i \in 1..Len(ps) :
                       IsWidthPair(ps[i]) /\ \A j \in (i + 1)..Len(ps) : ~IsWidthPair(ps[j])].val

\* the width values of the generated queries, by what they denote
Unparseable == {<<>>, VJunk, SrcUrl, UrlTail, VNeg, VOver}
Denotes(v) ==
    IF v = V90 THEN [hi |-> 0, lo |-> 90]
    ELSE IF v = VPlus THEN [hi |-> 0, lo |-> 7]
    ELSE IF v = V0 THEN [hi |-> 0, lo |-> 0]
    ELSE [hi |-> 65535, lo |-> 65535]

\* C1: a failure of any stage of GET /thumbnail ends the task without a
\* response, so the only statuses the server ever returns are 200 and 404
\* (a task is aborted exactly when a panic site was hit, and then it has
\* written no response).
C1_OnlyOkAndNotFound ==
    \A t \in Tasks :
        /\ resp[t] # None => resp[t].status \in {200, 404}
        /\ pc[t] = "aborted" <=> fault[t] \in Sites
        /\ pc[t] = "aborted" => resp[t] = None
        /\ pc[t] = "done" <=> resp[t] # None

C1_Witness ==
    \E t \in Tasks : pc[t] = "aborted" /\ fault[t] = "encode" /\ resp[t] = None
                        /\ resized[t] # None

\* C2: a request that is not exactly GET /thumbnail gets 404 with an empty
\* body whatever its query string is, and never aborts nor enters the
\* pipeline.
C2_OtherRoutesNotFound ==
    \A t \in Tasks :
        (Arrived(t) /\ ~(req[t].method = "GET" /\ req[t].path = "/thumbnail")) =>
            /\ pc[t] \in {"router", "done"}
            /\ fault[t] = "none"
            /\ nGet[t] = 0
            /\ opts[t] = None
            /\ pc[t] = "router" => resp[t] = None
            /\ pc[t] = "done" => resp[t] = [k |-> "resp", status |-> 404, body |-> [k |-> "empty"]]

C2_Witness ==
    \E t \in Tasks :
        /\ pc[t] = "done"
        /\ req[t].method = "POST" /\ req[t].path = "/thumbnail" /\ req[t].query = None
        /\ resp[t].status = 404

\* the response a request gets when it is served alone (None: the task aborts)
SoloOutcome(r, e) ==
    IF ~(r.method = "GET" /\ r.path = "/thumbnail") THEN NotFound
    ELSE IF r.query = None THEN None
    ELSE IF ThumbOptionsFrom(r.query.s) = ParseError THEN None
    ELSE LET o == ThumbOptionsFrom(r.query.s)
         IN IF o.url = <<>> \/ e.send = "refused" \/ e.body.k # "png" THEN None
            ELSE IF TargetHeight(e.body.w, e.body.h, o.width) = DivFault THEN None
            ELSE IF ~e.encOk THEN None
            ELSE Ok(Png(ToInt(o.width), TargetHeight(e.body.w, e.body.h, o.width)))

TaskState(t) == <<pc[t], req[t], env[t], opts[t], nGet[t], status[t], file[t], image[t],
                  height[t], resized[t], bytes[t], resp[t], fault[t]>>

SoloMatches ==
    \A t \in Tasks :
        /\ pc[t] = "done" => resp[t] = SoloOutcome(req[t], env[t])
        /\ pc[t] = "aborted" => resp[t] = None /\ SoloOutcome(req[t], env[t]) = None

OwnStateOnly ==
    \A t \in Tasks : \A u \in Tasks \ {t} :
        TaskState(t)' # TaskState(t) => TaskState(u)' = TaskState(u)

\* C3: with requests served concurrently in any interleaving, every request
\* ends as it would alone: an abort of one task changes nothing of another
\* task, a step of a task writes only that task's data, and a request that
\* succeeds alone ends with its own 200 response.
C3_FailureIsolation ==
    /\ []SoloMatches
    /\ [][OwnStateOnly]_vars
    /\ \A t \in Tasks :
          (Arrived(t) /\ SoloOutcome(req[t], env[t]) # None)
              ~> (pc[t] = "done" /\ resp[t] = SoloOutcome(req[t], env[t]))

C3_Witness ==
    \E t \in Tasks : \E u \in Tasks :
        /\ pc[t] = "aborted" /\ fault[t] = "send"
        /\ pc[u] = "done" /\ resp[u].status = 200

\* C4: a non-success status of the source is a fetch failure: the request
\* never gets past the fetch (no body read, no decode, no response).
C4_NonSuccessIsFetchFailure ==
    \A t \in Tasks :
        (Arrived(t) /\ env[t].send = "ok" /\ env[t].status \notin 200..299) =>
            /\ pc[t] \in {"router", "send", "done", "aborted"}
            /\ fault[t] \in {"none", "query", "width", "send"}
            /\ file[t] = None
            /\ resp[t] # None => resp[t].status = 404

\* C5: for width >= 1 dividing original_width evenly, the image is resized
\* to (width, original_height / (original_width / width)) in floor division,
\* and that height is original_height * width / original_width.
C5_EvenRatioDimensions ==
    (gout # None /\ gin.w >= 1 /\ gin.ow % gin.w = 0) =>
        /\ gout = [k |-> "dims", w |-> gin.w, h |-> gin.oh \div (gin.ow \div gin.w)]
        /\ gout.h = (gin.oh * gin.w) \div gin.ow

C5_Witness ==
    /\ gout # None /\ gin.ow = 6 /\ gin.oh = 5 /\ gin.w = 3
    /\ gout.w = 3 /\ gout.h = 2

\* original_width < width on u32
WidthExceeds(original_width, width) == width.hi > 0 \/ original_width < width.lo

\* C6: the geometry faults exactly when width is 0 or original_width < width;
\* the request is then aborted after fetch and decode, before resize and
\* encode, without a response.
C6_DegenerateGeometryFaults ==
    \A t \in Tasks :
        /\ (image[t] # None /\ pc[t] # "geometry") =>
               (fault[t] = "div" <=>
                    (opts[t].width = [hi |-> 0, lo |-> 0] \/ WidthExceeds(image[t].w, opts[t].width)))
        /\ fault[t] = "div" =>
               /\ pc[t] = "aborted"
               /\ nGet[t] = 1 /\ file[t] # None /\ image[t] # None
               /\ height[t] = -1 /\ resized[t] = None /\ bytes[t] = None
               /\ resp[t] = None

C6_Witness ==
    \E t \in Tasks :
        /\ fault[t] = "div" /\ pc[t] = "aborted"
        /\ opts[t].width = [hi |-> 0, lo |-> 3] /\ image[t].w = 2

\* C7: without a width pair the width is 180, without a url pair the url is
\* empty, otherwise the given values are taken; a request without a url pair
\* passes the parser and fails at the fetch.
C7_ParsingDefaults ==
    \A t \in Tasks :
        /\ (pc[t] \notin {"idle", "router"} /\ ~HasUrlPair(req[t].parts)
              /\ (HasWidthPair(req[t].parts) => LastWidth(req[t].parts) \notin Unparseable)) =>
               /\ opts[t] # None
               /\ Finished(t) => (pc[t] = "aborted" /\ fault[t] = "send" /\ nGet[t] = 1
                                     /\ file[t] = None)
        /\ opts[t] # None =>
               /\ ~HasWidthPair(req[t].parts) => opts[t].width = [hi |-> 0, lo |-> 180]
               /\ ~HasUrlPair(req[t].parts) => opts[t].url = <<>>
               /\ HasUrlPair(req[t].parts) => opts[t].url = LastUrl(req[t].parts)
               /\ HasWidthPair(req[t].parts) => opts[t].width = Denotes(LastWidth(req[t].parts))
               /\ req[t].parts = <<Piece(KeyUrl, SrcUrl), Piece(KeyWidth, V90)>> =>
                      opts[t] = [k |-> "opts", url |-> SrcUrl, width |-> [hi |-> 0, lo |-> 90]]
               /\ req[t].parts = <<Piece(KeyUrl, SrcUrl)>> =>
                      opts[t] = [k |-> "opts", url |-> SrcUrl, width |-> [hi |-> 0, lo |-> 180]]
               /\ req[t].parts = <<Piece(KeyWidth, V90)>> =>
                      opts[t] = [k |-> "opts", url |-> <<>>, width |-> [hi |-> 0, lo |-> 90]]

C7_Witness ==
    \E t \in Tasks :
        /\ Arrived(t)
        /\ req[t].parts = <<Piece(KeyWidth, V90)>>
        /\ opts[t] = [k |-> "opts", url |-> <<>>, width |-> [hi |-> 0, lo |-> 90]]
        /\ pc[t] = "aborted" /\ fault[t] = "send"

NoOptionsNoFetch(t) ==
    /\ pc[t] = "aborted" /\ fault[t] = "width"
    /\ opts[t] = None /\ nGet[t] = 0 /\ resp[t] = None

\* C8 as stated: a width pair with an unparseable value anywhere in the query
\* string aborts the request before any fetch.
C8_AnyBadWidthAborts ==
    \A t \in Tasks :
        (pc[t] \notin {"idle", "router"}
           /\ \E i \in 1..Len(req[t].parts) :
                 IsWidthPair(req[t].parts[i]) /\ req[t].parts[i].val \in Unparseable)
            => NoOptionsNoFetch(t)

\* C8 amended: when the last width pair of the query string has an
\* unparseable value, the request is aborted in the parser, with no options
\* (no default, no other width) and no fetch.
C8_LastBadWidthAborts ==
    \A t \in Tasks :
        (pc[t] \notin {"idle", "router"} /\ HasWidthPair(req[t].parts)
           /\ LastWidth(req[t].parts) \in Unparseable)
            => NoOptionsNoFetch(t)

C8_Witness ==
    \E t \in Tasks :
        /\ Arrived(t)
        /\ req[t].parts = <<Piece(KeyWidth, V90), Piece(KeyWidth, VOver)>>
        /\ NoOptionsNoFetch(t)

\* the map querify must build from the pieces the query was written with
ExpectedMap(ps) ==
    [x \in (IF HasUrlPair(ps) THEN {"url"} ELSE {}) \cup (IF HasWidthPair(ps) THEN {"width"} ELSE {})
        |-> IF x = "url" THEN LastUrl(ps) ELSE LastWidth(ps)]

\* C9: the query is cut at every '&' and each piece at its first '=' only;
\* the value is what follows, literally; only url and width pieces count,
\* the last one of each; other pieces change nothing.
C9_Tokenisation ==
    \A t \in Tasks :
        (Arrived(t) /\ req[t].query # None) =>
            /\ querify(req[t].query.s) = ExpectedMap(req[t].parts)
            /\ querify(req[t].query.s) = querify(Join(SelectSeq(req[t].parts, IsRecognised)))
            /\ (opts[t] # None /\ HasUrlPair(req[t].parts)) => opts[t].url = LastUrl(req[t].parts)

C9_Witness ==
    \E t \in Tasks :
        /\ Arrived(t)
        /\ req[t].parts = <<Piece(KeyUrl, SrcUrl), Piece(KeyUrl, UrlTail)>>
        /\ opts[t] # None /\ opts[t].url = <<"a", "=", "b", "%", "2", "6">>

Rank(label) ==
    CASE label = "idle" -> 0
      [] label = "router" -> 1
      [] label = "send" -> 2
      [] label = "bytes" -> 3
      [] label = "decode" -> 4
      [] label = "geometry" -> 5
      [] label = "resize" -> 6
      [] label = "encode" -> 7
      [] label = "respond" -> 8
      [] OTHER -> 9

StagesInOrder ==
    \A t \in Tasks :
        /\ nGet[t] <= 1
        /\ opts[t] # None <=> (Rank(pc[t]) \in 2..8 \/ (Finished(t) /\ fault[t] \notin {"query", "width"}
                                                        /\ (resp[t] # None => resp[t].status = 200)))
        /\ nGet[t] = 1 <=> (opts[t] # None /\ pc[t] # "send")
        /\ file[t] # None => (nGet[t] = 1 /\ status[t] # 0)
        /\ image[t] # None => (file[t] # None /\ file[t].k = "png")
        /\ height[t] # -1 => image[t] # None
        /\ resized[t] # None => height[t] # -1
        /\ bytes[t] # None => (resized[t] # None /\ bytes[t] = Png(resized[t].w, resized[t].h))
        /\ (resp[t] # None /\ resp[t].status = 200) =>
               (pc[t] = "done" /\ bytes[t] # None /\ resp[t].body = bytes[t])

NoStageAgain ==
    \A t \in Tasks :
        /\ Rank(pc'[t]) >= Rank(pc[t])
        /\ nGet'[t] >= nGet[t]
        /\ Finished(t) => TaskState(t)' = TaskState(t)
        /\ opts[t] # None => opts'[t] = opts[t]
        /\ file[t] # None => file'[t] = file[t]
        /\ image[t] # None => image'[t] = image[t]
        /\ resized[t] # None => resized'[t] = resized[t]
        /\ bytes[t] # None => bytes'[t] = bytes[t]
        /\ resp[t] # None => resp'[t] = resp[t]

====
